---------------------------- MODULE Spec2Model ----------------------------
(* A model of gsheet.py: the column-letter counter next_column, the table  *)
(* abstraction SheetTable and the spreadsheet object SpreadSheetDB, run    *)
(* against a model of the remote range store they call.                    *)
(*                                                                         *)
(* A Python str is modelled two ways.  Column letters, which the code      *)
(* takes apart character by character, are sequences of code points        *)
(* (<<65>> is 'A').  Sheet titles, column names and cell values, which the *)
(* code only compares, stores and passes on, are TLA+ strings.             *)
EXTENDS Integers, Sequences, FiniteSets, TLC

VARIABLES
    remote,   \* the remote spreadsheet: sheet title -> grid of non-empty cells
    sheets,   \* SpreadSheetDB.sheets: title -> the SheetTable registered under it
    calls,    \* the remote requests issued by the last operation, in order
    last,     \* the last operation: its name, its arguments and its outcome
    nOps,     \* how many operations have run since construction
    colIn,    \* the argument of the next_column call under study
    colOut,   \* its outcome, once the call has run
    callers   \* concurrent callers of insert_row: each one's place in the call

vars == <<remote, sheets, calls, last, nOps, colIn, colOut, callers>>

-----------------------------------------------------------------------------
(* Bounds of the model.                                                    *)

\* longest column-letter string handed to next_column over A-Z
MaxColLen == 2
\* longest string over the mixed alphabet (letters and non-letters)
MaxMixedLen == 2
\* most cells of a header row, and most names of a create_sheet call
MaxCols == 2
\* most data rows below the header in the remote sheet at construction
MaxInitRows == 1
\* most operations run on one store after its construction
MaxOps == 1

-----------------------------------------------------------------------------
(* Characters.                                                             *)

OrdA == 65
OrdZ == 90
OrdLowerA == 97
OrdLowerZ == 122
\* str.upper() on an ASCII letter: the distance from 'a' to 'A'
UpperShift == 32

Letters == OrdA..OrdZ

\* '1', '@' (just below 'A'), '[' (just above 'Z'), 'a', 'z' and three letters
MixedChars == {49, 64, 91, OrdLowerA, OrdLowerZ, OrdA, 89, OrdZ}

RECURSIVE StrsUpTo(_, _)
StrsUpTo(alphabet, n) ==
    IF n = 0 THEN {<<>>}
    ELSE LET shorter == StrsUpTo(alphabet, n - 1)
         IN  shorter \cup {Append(s, c) : s \in shorter, c \in alphabet}

IsColumnLetter(s) == Len(s) >= 1 /\ \A i \in 1..Len(s) : s[i] \in Letters

-----------------------------------------------------------------------------
(* next_column.                                                            *)

\* str.upper() on one ASCII character
Upper(c) == IF c \in OrdLowerA..OrdLowerZ THEN c - UpperShift ELSE c

\* (a variant that rolls 'Z' over to 'A' and drops the carry)
char_add_one_or_zero_carry_lost(c, n) ==
    IF n = 0 THEN <<c, 0>>
    ELSE IF c = OrdZ THEN <<OrdA, 0>> ELSE <<c + 1, 0>>

\* the inner function: the digit and the carry out, for carry in n
char_add_one_or_zero(c, n) ==
    IF n = 0 THEN <<c, 0>>
    ELSE IF c = OrdZ THEN <<OrdA, 1>> ELSE <<c + 1, 0>>

Reverse(s) == [i \in 1..Len(s) |-> s[Len(s) + 1 - i]]

\* the loop over reversed(column.upper()): rest is what is still to read,
\* least significant character first; res and n are the loop's variables
RECURSIVE NextColumnLoop(_, _, _)
NextColumnLoop(rest, res, n) ==
    IF rest = <<>> THEN (IF n # 0 THEN Append(res, OrdA) ELSE res)
    ELSE LET r == char_add_one_or_zero(Upper(Head(rest)), n)
         IN  NextColumnLoop(Tail(rest), Append(res, r[1]), r[2])

\* the call's outcome: an AssertionError for the empty string (assert
\* column), the joined characters otherwise
NextColumnResult(column) ==
    IF column = <<>> THEN [err |-> "AssertionError", val |-> <<>>]
    ELSE [err |-> "none",
          val |-> Reverse(NextColumnLoop(Reverse(column), <<>>, 1))]

next_column(column) == NextColumnResult(column).val

\* the 1-based value of a column letter, a bijective base-26 numeral
RECURSIVE decode(_)
decode(s) ==
    IF s = <<>> THEN 0
    ELSE 26 * decode(SubSeq(s, 1, Len(s) - 1)) + (s[Len(s)] - OrdA + 1)


-----------------------------------------------------------------------------
(* Strings, dicts and ranges.                                              *)

\* the titles, column names and cell values of the model; "" is the empty
\* string, and "'id" is text a spreadsheet UI reads as the literal id
Titles == {"Users", "sheets"}
Strs == {"id", "'id", ""}

SpreadsheetId == "sid"

Max(S) == CHOOSE x \in S : \A y \in S : y <= x

\* a Python dict is a sequence of <<key, value>> pairs with distinct keys,
\* in insertion order
DictKeys(d) == {d[i][1] : i \in 1..Len(d)}

\* d[k] = v: a present key keeps its place and takes the new value
DictSet(d, k, v) ==
    IF k \in DictKeys(d)
    THEN [i \in 1..Len(d) |-> IF d[i][1] = k THEN <<k, v>> ELSE d[i]]
    ELSE Append(d, <<k, v>>)

\* A range in A1 notation, as the fields the format strings fill in: the
\* sheet title, then the two corners; a corner without a column has c = <<>>
\* and one without a row has r = 0.
\* u'{}!1:1'.format(title)
HeaderRange(title) ==
    [sheet |-> title, c1 |-> <<>>, r1 |-> 1, c2 |-> <<>>, r2 |-> 1]

\* u'{}!A:A'.format(title)
ColumnARange(title) ==
    [sheet |-> title, c1 |-> <<OrdA>>, r1 |-> 0, c2 |-> <<OrdA>>, r2 |-> 0]

\* '{}!{}{}:{}{}'.format(title, column_id, row_id, column_id, row_id)
CellRange(title, column_id, row_id) ==
    [sheet |-> title, c1 |-> column_id, r1 |-> row_id,
                      c2 |-> column_id, r2 |-> row_id]

\* '{}!A2:{}{}'.format(title, column_id, max_row_id)
DataRange(title, column_id, max_row_id) ==
    [sheet |-> title, c1 |-> <<OrdA>>, r1 |-> 2,
                      c2 |-> column_id, r2 |-> max_row_id]

-----------------------------------------------------------------------------
(* The remote store, as the requests of the code use it.  A grid is a      *)
(* function from the occupied cells <<column index, row>> to their values; *)
(* a cell holding "" is an empty cell and is not in the grid.              *)

\* the rectangle a range names, as <<first column, last column, first row,
\* last row>> with 0 for a side the range leaves open; a rectangle given by
\* two corners is the same rectangle whichever corners are named
Rectangle(rg) ==
    LET a == decode(rg.c1)
        b == decode(rg.c2)
    IN  << IF a <= b THEN a ELSE b, IF a <= b THEN b ELSE a,
           IF rg.r1 <= rg.r2 THEN rg.r1 ELSE rg.r2,
           IF rg.r1 <= rg.r2 THEN rg.r2 ELSE rg.r1 >>

InRectangle(cell, q) ==
    /\ q[1] = 0 \/ (q[1] <= cell[1] /\ cell[1] <= q[2])
    /\ q[3] = 0 \/ (q[3] <= cell[2] /\ cell[2] <= q[4])

\* spreadsheets().values().get(range).execute().get('values', []): the rows
\* of the range from its first row to its last occupied one, each from the
\* range's first column to the row's last occupied one; trailing empty rows
\* and cells are left out, and so is the whole key when nothing is occupied
RemoteValuesGet(rem, rg) ==
    LET grid == rem[rg.sheet]
        q == Rectangle(rg)
        occ == {cell \in DOMAIN grid : InRectangle(cell, q)}
        rlo == IF q[3] = 0 THEN 1 ELSE q[3]
        clo == IF q[1] = 0 THEN 1 ELSE q[1]
        RowOf(r) ==
            LET cols == {cell[1] : cell \in {x \in occ : x[2] = r}}
            IN  IF cols = {} THEN <<>>
                ELSE [j \in 1..(Max(cols) - clo + 1) |->
                        IF <<clo + j - 1, r>> \in occ
                        THEN grid[<<clo + j - 1, r>>] ELSE ""]
    IN  IF occ = {} THEN <<>>
        ELSE [i \in 1..(Max({cell[2] : cell \in occ}) - rlo + 1) |->
                RowOf(rlo + i - 1)]

\* ValueInputOption, as the docstring of insert_row has it: RAW stores the
\* value as it is, USER_ENTERED parses it as if typed into the UI, where a
\* leading apostrophe marks literal text and is not part of the value
StoredValue(value_input_option, value) ==
    IF value_input_option = "USER_ENTERED" /\ value = "'id" THEN "id"
    ELSE value

PutCell(grid, cell, v) ==
    IF v = ""
    THEN [x \in DOMAIN grid \ {cell} |-> grid[x]]
    ELSE [x \in DOMAIN grid \cup {cell} |-> IF x = cell THEN v ELSE grid[x]]

\* one entry of a batch write: the values laid out from the range's corner
RECURSIVE PutValues(_, _, _, _, _)
PutValues(grid, c, r, vs, vio) ==
    IF vs = <<>> THEN grid
    ELSE LET line == Head(vs)
             RECURSIVE PutLine(_, _)
             PutLine(g, j) ==
                IF j > Len(line) THEN g
                ELSE PutLine(PutCell(g, <<c + j - 1, r>>,
                                     StoredValue(vio, line[j])), j + 1)
         IN  PutValues(PutLine(grid, 1), c, r + 1, Tail(vs), vio)

PutEntry(grid, entry, vio) ==
    PutValues(grid, decode(entry.range.c1), entry.range.r1, entry.values, vio)

RECURSIVE PutEntries(_, _, _)
PutEntries(grid, data, vio) ==
    IF data = <<>> THEN grid
    ELSE PutEntries(PutEntry(grid, Head(data), vio), Tail(data), vio)

\* spreadsheets().values().batchUpdate(body).execute(): every entry of
\* body['data'] written, in one request
RemoteValuesBatchUpdate(rem, title, body) ==
    [rem EXCEPT ![title] = PutEntries(@, body.data, body.valueInputOption)]

\* spreadsheets().values().clear(range).execute()
RemoteValuesClear(rem, rg) ==
    LET q == Rectangle(rg)
    IN  [rem EXCEPT ![rg.sheet] =
            [x \in {cell \in DOMAIN @ : ~InRectangle(cell, q)} |-> @[x]]]

\* spreadsheets().batchUpdate({'requests': [{'addSheet': ...}]}).execute():
\* a new, empty sheet
EmptyGrid == [x \in {} |-> ""]

RemoteAddSheet(rem, title) ==
    [t \in DOMAIN rem \cup {title} |-> IF t = title THEN EmptyGrid ELSE rem[t]]

\* the requests, as the log records them
GetCall(rg) ==
    [api |-> "values.get", spreadsheetId |-> SpreadsheetId, range |-> rg]
BatchUpdateValuesCall(body) ==
    [api |-> "values.batchUpdate", spreadsheetId |-> SpreadsheetId, body |-> body]
ClearCall(rg) ==
    [api |-> "values.clear", spreadsheetId |-> SpreadsheetId, range |-> rg]
AddSheetCall(title) ==
    [api |-> "batchUpdate", spreadsheetId |-> SpreadsheetId, addSheet |-> title]
SheetsGetCall ==
    [api |-> "get", spreadsheetId |-> SpreadsheetId]

-----------------------------------------------------------------------------
(* SheetTable.  A table is a record of its fields; column_dict, a bidict   *)
(* from column name to column letter, is a function.                       *)

\* (a variant that keeps the letter a name already has)
BidictSetKeepFirst(column_dict, column_name, column_id) ==
    [k \in DOMAIN column_dict \cup {column_name} |->
        IF k \in DOMAIN column_dict THEN column_dict[k] ELSE column_id]

\* column_dict[column_name] = column_id on a bidict whose letters are all
\* below column_id: a name already present is rebound to the new letter
BidictSet(column_dict, column_name, column_id) ==
    [k \in DOMAIN column_dict \cup {column_name} |->
        IF k = column_name THEN column_id ELSE column_dict[k]]

\* the loop that fills a bidict from a list of names, starting at 'A'
RECURSIVE ColumnDictLoop(_, _, _)
ColumnDictLoop(column_names, column_dict, column_id) ==
    IF column_names = <<>> THEN column_dict
    ELSE ColumnDictLoop(Tail(column_names),
                        BidictSet(column_dict, Head(column_names), column_id),
                        next_column(column_id))

EmptyBidict == [k \in {} |-> <<>>]

\* reflect_columns: the mapping it returns and the request it issues
reflect_columns(rem, title) ==
    LET rg == HeaderRange(title)
        values == RemoteValuesGet(rem, rg)
        column_names == IF values # <<>> THEN values[1] ELSE <<>>
    IN  [ret |-> ColumnDictLoop(column_names, EmptyBidict, <<OrdA>>),
         calls |-> <<GetCall(rg)>>]

\* SheetTable(service, spreadsheet_id, title, column_dict)
SheetTable(title, column_dict) ==
    [spreadsheet_id |-> SpreadsheetId, title |-> title,
     column_dict |-> column_dict]

\* (a variant that returns the last occupied row, without the + 1)
next_empty_row_id_last_row(rem, title) ==
    LET rg == ColumnARange(title)
    IN  [ret |-> Len(RemoteValuesGet(rem, rg)),
         calls |-> <<GetCall(rg)>>]

\* next_empty_row_id: the row id it returns and the request it issues
next_empty_row_id(rem, title) ==
    LET rg == ColumnARange(title)
    IN  [ret |-> Len(RemoteValuesGet(rem, rg)) + 1,
         calls |-> <<GetCall(rg)>>]

\* the body insert_row builds for row_id
InsertBody(table, row, value_input_option, row_id) ==
    [valueInputOption |-> value_input_option,
     data |-> [i \in 1..Len(row) |->
                [range |-> CellRange(table.title,
                                     table.column_dict[row[i][1]], row_id),
                 values |-> << <<row[i][2]>> >>]]]

\* (a variant that reads the next empty row before it checks the names)
insert_row_reads_first(rem, table, row, value_input_option) ==
    LET nxt == next_empty_row_id(rem, table.title)
    IN  IF \E k \in DictKeys(row) : k \notin DOMAIN table.column_dict
        THEN [err |-> "AssertionError", calls |-> nxt.calls, remote |-> rem]
        ELSE LET body == InsertBody(table, row, value_input_option, nxt.ret)
             IN  [err |-> "none",
                  calls |-> nxt.calls \o <<BatchUpdateValuesCall(body)>>,
                  remote |-> RemoteValuesBatchUpdate(rem, table.title, body)]

\* insert_row: its outcome, the requests it issues and the remote store
\* it leaves
insert_row(rem, table, row, value_input_option) ==
    IF \E k \in DictKeys(row) : k \notin DOMAIN table.column_dict
    THEN [err |-> "AssertionError", calls |-> <<>>, remote |-> rem]
    ELSE LET nxt == next_empty_row_id(rem, table.title)
             body == InsertBody(table, row, value_input_option, nxt.ret)
         IN  [err |-> "none",
              calls |-> nxt.calls \o <<BatchUpdateValuesCall(body)>>,
              remote |-> RemoteValuesBatchUpdate(rem, table.title, body)]

\* the loop of clear_all_data: one next_column per mapped column
RECURSIVE ClearColumnLoop(_, _)
ClearColumnLoop(n, column_id) ==
    IF n = 0 THEN column_id
    ELSE ClearColumnLoop(n - 1, next_column(column_id))

\* (a variant that clears through the last occupied row of column A only)
clear_all_data_last_row(rem, table) ==
    LET nxt == next_empty_row_id(rem, table.title)
        max_row_id == nxt.ret - 1
        column_id == ClearColumnLoop(Cardinality(DOMAIN table.column_dict),
                                     <<OrdA>>)
        rg == DataRange(table.title, column_id, max_row_id)
    IN  [err |-> "none",
         calls |-> nxt.calls \o <<ClearCall(rg)>>,
         remote |-> RemoteValuesClear(rem, rg)]

\* clear_all_data: the requests it issues and the remote store it leaves
clear_all_data(rem, table) ==
    LET nxt == next_empty_row_id(rem, table.title)
        max_row_id == nxt.ret
        column_id == ClearColumnLoop(Cardinality(DOMAIN table.column_dict),
                                     <<OrdA>>)
        rg == DataRange(table.title, column_id, max_row_id)
    IN  [err |-> "none",
         calls |-> nxt.calls \o <<ClearCall(rg)>>,
         remote |-> RemoteValuesClear(rem, rg)]

-----------------------------------------------------------------------------
(* SpreadSheetDB.                                                          *)

\* the loop of reflect_meta over the sheets the remote spreadsheet lists:
\* one SheetTable per sheet, each reflecting its own header row
RECURSIVE ReflectMetaLoop(_, _, _)
ReflectMetaLoop(rem, todo, acc) ==
    IF todo = {} THEN acc
    ELSE LET title == CHOOSE t \in todo : TRUE
             r == reflect_columns(rem, title)
         IN  ReflectMetaLoop(rem, todo \ {title},
                [sheets |-> [t \in DOMAIN acc.sheets \cup {title} |->
                                IF t = title THEN SheetTable(title, r.ret)
                                ELSE acc.sheets[t]],
                 calls |-> acc.calls \o r.calls])

\* __init__ and reflect_meta: the sheets map and the requests issued
reflect_meta(rem) ==
    ReflectMetaLoop(rem, DOMAIN rem,
                    [sheets |-> [t \in {} |-> <<>>], calls |-> <<SheetsGetCall>>])

\* what the object has besides its sheets: the attributes __init__ sets and
\* the methods of the class
InstanceAttributes == {"service", "spreadsheet_id", "sheets"}
ClassAttributes == {"reflect_meta", "create_sheet", "__init__", "__getattr__"}

\* __getattr__(name), which Python calls only when the normal lookup fails
GetAttrHook(shs, name) ==
    IF name \in DOMAIN shs
    THEN [err |-> "none", kind |-> "SheetTable", table |-> shs[name]]
    ELSE [err |-> "AttributeError", kind |-> "none", table |-> <<>>]

\* db.<name>: the instance's and the class's own attributes come first
GetAttribute(shs, name) ==
    IF name \in InstanceAttributes \cup ClassAttributes
    THEN [err |-> "none", kind |-> "attribute", table |-> <<>>]
    ELSE GetAttrHook(shs, name)

\* {column_name: column_name for column_name in column_names}
RECURSIVE HeaderDict(_, _)
HeaderDict(column_names, d) ==
    IF column_names = <<>> THEN d
    ELSE HeaderDict(Tail(column_names),
                    DictSet(d, Head(column_names), Head(column_names)))

\* (a variant that leaves the header to insert_row's default option)
HeaderInputOptionDefault == "USER_ENTERED"

\* the value_input_option create_sheet writes the header with
HeaderInputOption == "RAW"

\* (a variant without the check of the title)
create_sheet_unchecked(rem, shs, title, column_names) ==
    LET added == RemoteAddSheet(rem, title)
        column_dict == ColumnDictLoop(column_names, EmptyBidict, <<OrdA>>)
        sheet == SheetTable(title, column_dict)
        ins == insert_row(added, sheet, HeaderDict(column_names, <<>>),
                          HeaderInputOption)
    IN  [err |-> ins.err,
         calls |-> <<AddSheetCall(title)>> \o ins.calls,
         remote |-> ins.remote,
         sheets |-> [t \in DOMAIN shs \cup {title} |->
                       IF t = title THEN sheet ELSE shs[t]]]

\* create_sheet: its outcome, the requests it issues, the remote store and
\* the sheets map it leaves
create_sheet(rem, shs, title, column_names) ==
    IF title \in DOMAIN shs
    THEN [err |-> "AssertionError", calls |-> <<>>, remote |-> rem,
          sheets |-> shs]
    ELSE LET added == RemoteAddSheet(rem, title)
             column_dict == ColumnDictLoop(column_names, EmptyBidict, <<OrdA>>)
             sheet == SheetTable(title, column_dict)
             ins == insert_row(added, sheet, HeaderDict(column_names, <<>>),
                               HeaderInputOption)
         IN  [err |-> ins.err,
              calls |-> <<AddSheetCall(title)>> \o ins.calls,
              remote |-> ins.remote,
              sheets |-> [t \in DOMAIN shs \cup {title} |->
                            IF t = title THEN sheet ELSE shs[t]]]

-----------------------------------------------------------------------------
(* The inputs of the operations.                                           *)

InputOptions == {"RAW", "USER_ENTERED"}

\* the column names a caller keys a row with, in the order the dict holds
\* them, and the values it gives them
RowNames == <<"id", "'id">>
RowValues == {"'id", ""}

\* the rows: every dict over a subset of RowNames
RECURSIVE RowsFrom(_)
RowsFrom(i) ==
    IF i > Len(RowNames) THEN {<<>>}
    ELSE LET rest == RowsFrom(i + 1)
         IN  rest \cup {<< <<RowNames[i], v>> >> \o r : v \in RowValues, r \in rest}

Rows == RowsFrom(1)

\* the lists of column names of a create_sheet call
NameLists == StrsUpTo(Strs, MaxCols)

\* the names looked up on the store object
AttrNames == Titles \cup {"create_sheet", "Orders"}

\* the argument strings of next_column
ColumnInputs == StrsUpTo(Letters, MaxColLen) \cup StrsUpTo(MixedChars, MaxMixedLen)

\* The remote sheet the store is constructed on: a header row of up to
\* MaxCols cells, some of them empty, and below it either nothing or
\* MaxInitRows data rows that fill the columns A .. MaxCols + 1.
InitialGrids ==
    {[cell \in {<<c, 1>> : c \in {j \in 1..MaxCols : h[j] # ""}}
             \cup ((1..(MaxCols + 1)) \X (2..(d + 1))) |->
        IF cell[2] = 1 THEN h[cell[1]] ELSE "id"] :
      h \in [1..MaxCols -> Strs], d \in {0, MaxInitRows}}

NoOp == [op |-> "construct", title |-> "", arg |-> <<>>, option |-> "",
         err |-> "none", ret |-> <<>>]

Pending == [err |-> "pending", val |-> <<>>]

\* no concurrent callers: every operation runs from start to end on its own
NoCallers == <<>>

-----------------------------------------------------------------------------
(* The store: construction, then any operation with any input.             *)

Init ==
    /\ \E t \in Titles, g \in InitialGrids : remote = [x \in {t} |-> g]
    /\ sheets = reflect_meta(remote).sheets
    /\ calls = reflect_meta(remote).calls
    /\ last = NoOp
    /\ nOps = 0
    /\ colIn = <<OrdA>>
    /\ colOut = Pending
    /\ callers = NoCallers

\* (a variant that forgets the mapping of a table whose insert was rejected)
InsertRowForgetsMapping ==
    /\ nOps < MaxOps
    /\ \E t \in DOMAIN sheets, row \in Rows, vio \in InputOptions :
        LET r == insert_row(remote, sheets[t], row, vio)
        IN  /\ remote' = r.remote
            /\ calls' = r.calls
            /\ sheets' = IF r.err = "none" THEN sheets
                         ELSE [sheets EXCEPT ![t].column_dict = EmptyBidict]
            /\ last' = [op |-> "insert_row", title |-> t, arg |-> row,
                        option |-> vio, err |-> r.err, ret |-> <<>>]
    /\ nOps' = nOps + 1
    /\ UNCHANGED <<colIn, colOut, callers>>

InsertRow ==
    /\ nOps < MaxOps
    /\ \E t \in DOMAIN sheets, row \in Rows, vio \in InputOptions :
        LET r == insert_row(remote, sheets[t], row, vio)
        IN  /\ remote' = r.remote
            /\ calls' = r.calls
            /\ last' = [op |-> "insert_row", title |-> t, arg |-> row,
                        option |-> vio, err |-> r.err, ret |-> <<>>]
    /\ nOps' = nOps + 1
    /\ UNCHANGED <<sheets, colIn, colOut, callers>>

NextEmptyRowId ==
    /\ nOps < MaxOps
    /\ \E t \in DOMAIN sheets :
        LET r == next_empty_row_id(remote, t)
        IN  /\ calls' = r.calls
            /\ last' = [op |-> "next_empty_row_id", title |-> t, arg |-> <<>>,
                        option |-> "", err |-> "none", ret |-> r.ret]
    /\ nOps' = nOps + 1
    /\ UNCHANGED <<remote, sheets, colIn, colOut, callers>>

ReflectColumns ==
    /\ nOps < MaxOps
    /\ \E t \in DOMAIN sheets :
        LET r == reflect_columns(remote, t)
        IN  /\ calls' = r.calls
            /\ last' = [op |-> "reflect_columns", title |-> t, arg |-> <<>>,
                        option |-> "", err |-> "none", ret |-> r.ret]
    /\ nOps' = nOps + 1
    /\ UNCHANGED <<remote, sheets, colIn, colOut, callers>>

ClearAllData ==
    /\ nOps < MaxOps
    /\ \E t \in DOMAIN sheets :
        LET r == clear_all_data(remote, sheets[t])
        IN  /\ remote' = r.remote
            /\ calls' = r.calls
            /\ last' = [op |-> "clear_all_data", title |-> t, arg |-> <<>>,
                        option |-> "", err |-> r.err, ret |-> <<>>]
    /\ nOps' = nOps + 1
    /\ UNCHANGED <<sheets, colIn, colOut, callers>>

CreateSheet ==
    /\ nOps < MaxOps
    /\ \E t \in Titles, column_names \in NameLists :
        LET r == create_sheet(remote, sheets, t, column_names)
        IN  /\ remote' = r.remote
            /\ sheets' = r.sheets
            /\ calls' = r.calls
            /\ last' = [op |-> "create_sheet", title |-> t,
                        arg |-> column_names, option |-> "",
                        err |-> r.err, ret |-> <<>>]
    /\ nOps' = nOps + 1
    /\ UNCHANGED <<colIn, colOut, callers>>

GetAttr ==
    /\ nOps < MaxOps
    /\ \E name \in AttrNames :
        LET r == GetAttribute(sheets, name)
        IN  last' = [op |-> "getattr", title |-> name, arg |-> <<>>,
                     option |-> "", err |-> r.err,
                     ret |-> [kind |-> r.kind, table |-> r.table]]
    /\ calls' = <<>>
    /\ nOps' = nOps + 1
    /\ UNCHANGED <<remote, sheets, colIn, colOut, callers>>

Next ==
    \/ InsertRow
    \/ NextEmptyRowId
    \/ ReflectColumns
    \/ ClearAllData
    \/ CreateSheet
    \/ GetAttr

Spec == Init /\ [][Next]_vars

-----------------------------------------------------------------------------
(* next_column on its own: one call on any argument.                       *)

InitColumn ==
    /\ colIn \in ColumnInputs
    /\ colOut = Pending
    /\ remote = [x \in {} |-> EmptyGrid]
    /\ sheets = [x \in {} |-> <<>>]
    /\ calls = <<>>
    /\ last = NoOp
    /\ nOps = 0
    /\ callers = NoCallers

CallNextColumn ==
    /\ colOut = Pending
    /\ colOut' = NextColumnResult(colIn)
    /\ UNCHANGED <<remote, sheets, calls, last, nOps, colIn, callers>>

NextColumn == CallNextColumn

SpecColumn == InitColumn /\ [][NextColumn]_vars

-----------------------------------------------------------------------------
(* Properties of next_column, under SpecColumn.                            *)

Called == colOut # Pending

Str_A == <<OrdA>>
Str_B == <<OrdA + 1>>
Str_Z == <<OrdZ>>
Str_AA == <<OrdA, OrdA>>
Str_AZ == <<OrdA, OrdZ>>
Str_BA == <<OrdA + 1, OrdA>>
Str_ZZ == <<OrdZ, OrdZ>>
Str_AAA == <<OrdA, OrdA, OrdA>>

\* C1: for every non-empty string L over A-Z, next_column(L) succeeds and
\* returns the column letter whose bijective base-26 value is decode(L) + 1;
\* Z -> AA, AZ -> BA, ZZ -> AAA and A -> B.
C1_Increment ==
    (Called /\ IsColumnLetter(colIn)) =>
        /\ colOut.err = "none"
        /\ IsColumnLetter(colOut.val)
        /\ decode(colOut.val) = decode(colIn) + 1
        /\ (colIn = Str_Z => colOut.val = Str_AA)
        /\ (colIn = Str_AZ => colOut.val = Str_BA)
        /\ (colIn = Str_ZZ => colOut.val = Str_AAA)
        /\ (colIn = Str_A => colOut.val = Str_B)

\* the carry has run past the most significant position
C1_Witness == Called /\ colIn = Str_ZZ /\ colOut.val = Str_AAA

\* C10: next_column fails for the empty string and for every string holding
\* a character that is not an upper-case letter A-Z, and returns no column
\* letter then.
C10_RejectsInvalid ==
    (Called /\ ~IsColumnLetter(colIn)) => colOut.err # "none"

-----------------------------------------------------------------------------
(* Properties of the store, under Spec.  What a property says of the       *)
(* remote sheet is read off the grid itself, not through the requests.     *)

\* the last occupied row of column A; 0 when the column is empty
LastRowOfA(grid) ==
    LET rows == {cell[2] : cell \in {x \in DOMAIN grid : x[1] = 1}}
    IN  IF rows = {} THEN 0 ELSE Max(rows)

\* the cells of row 1, from column A to the last occupied one
HeaderOf(grid) ==
    LET cols == {cell[1] : cell \in {x \in DOMAIN grid : x[2] = 1}}
    IN  IF cols = {} THEN <<>>
        ELSE [j \in 1..Max(cols) |->
                IF <<j, 1>> \in DOMAIN grid THEN grid[<<j, 1>>] ELSE ""]

\* what a cell holds, "" for an empty cell
CellValue(grid, cell) == IF cell \in DOMAIN grid THEN grid[cell] ELSE ""

\* letter is the i-th column letter
IsNthLetter(letter, i) == IsColumnLetter(letter) /\ decode(letter) = i

OneToOne(f) == \A a, b \in DOMAIN f : f[a] = f[b] => a = b

Distinct(seq) == \A i, j \in 1..Len(seq) : seq[i] = seq[j] => i = j

SeqRange(seq) == {seq[i] : i \in 1..Len(seq)}

\* C2: for a row whose keys are all mapped, insert_row reads column A once,
\* r being the rows returned plus 1, and then issues one batch write whose
\* data holds, for every (name, value) of the row and nothing else, the
\* single cell letter(name) r with values [[value]], under the caller's
\* value_input_option.
C2_InsertRowRequests ==
    [][ (/\ last'.op = "insert_row"
         /\ DictKeys(last'.arg) \subseteq DOMAIN sheets[last'.title].column_dict)
        =>
        LET t == last'.title
            row == last'.arg
            column_dict == sheets[t].column_dict
            r == LastRowOfA(remote[t]) + 1
        IN  /\ last'.err = "none"
            /\ Len(calls') = 2
            /\ calls'[1] = [api |-> "values.get", spreadsheetId |-> SpreadsheetId,
                            range |-> [sheet |-> t, c1 |-> Str_A, r1 |-> 0,
                                       c2 |-> Str_A, r2 |-> 0]]
            /\ calls'[2].api = "values.batchUpdate"
            /\ calls'[2].spreadsheetId = SpreadsheetId
            /\ calls'[2].body.valueInputOption = last'.option
            /\ Len(calls'[2].body.data) = Len(row)
            /\ SeqRange(calls'[2].body.data) =
                 {[range |-> [sheet |-> t,
                              c1 |-> column_dict[row[i][1]], r1 |-> r,
                              c2 |-> column_dict[row[i][1]], r2 |-> r],
                   values |-> << <<row[i][2]>> >>] : i \in 1..Len(row)}
      ]_vars

\* a row of two mapped names has been written by one batch write
C2_Witness ==
    /\ last.op = "insert_row"
    /\ last.err = "none"
    /\ Len(last.arg) = 2
    /\ Len(calls) = 2
    /\ Len(calls[2].body.data) = 2
    /\ last.option = "RAW"

\* C3: insert_row with a row that has a key outside the mapping fails before
\* any remote request: no read of column A, no batch write, and the remote
\* sheets and the tables are as they were, also when other keys are mapped.
C3_UnknownColumnNoCall ==
    [][ (/\ last'.op = "insert_row"
         /\ \E k \in DictKeys(last'.arg) :
                k \notin DOMAIN sheets[last'.title].column_dict)
        =>
        /\ last'.err = "AssertionError"
        /\ calls' = <<>>
        /\ remote' = remote
        /\ sheets' = sheets
      ]_vars

\* a row with one mapped key and one unmapped key has been rejected
C3_Witness ==
    /\ last.op = "insert_row"
    /\ last.err = "AssertionError"
    /\ calls = <<>>
    /\ \E k \in DictKeys(last.arg) : k \in DOMAIN sheets[last.title].column_dict
    /\ \E k \in DictKeys(last.arg) : k \notin DOMAIN sheets[last.title].column_dict

\* C4: for a table of k >= 1 mapped columns whose column A is occupied down
\* to row m, clear_all_data reads column A and issues one clear of the
\* rectangle from A2 to (k-th column letter, row m), and no cell outside that
\* rectangle changes.
C4_ClearRectangle ==
    [][ (/\ last'.op = "clear_all_data"
         /\ DOMAIN sheets[last'.title].column_dict # {})
        =>
        LET t == last'.title
            k == Cardinality(DOMAIN sheets[t].column_dict)
            m == LastRowOfA(remote[t])
        IN  /\ Len(calls') = 2
            /\ calls'[2].api = "values.clear"
            /\ calls'[2].range.sheet = t
            /\ calls'[2].range.c1 = Str_A
            /\ calls'[2].range.r1 = 2
            /\ IsNthLetter(calls'[2].range.c2, k)
            /\ calls'[2].range.r2 = m
            /\ \A cell \in DOMAIN remote[t] :
                 (cell[1] > k \/ cell[2] > m \/ cell[2] < 2)
                    => CellValue(remote'[t], cell) = remote[t][cell]
      ]_vars

\* what C5 says of the state a successful create_sheet leaves
C5_RoundTripHolds ==
    LET t == last.title
        names == last.arg
        grid == remote[t]
        column_dict == sheets[t].column_dict
    IN  /\ \A i \in 1..Len(names) : CellValue(grid, <<i, 1>>) = names[i]
        /\ DOMAIN grid \subseteq {<<i, 1>> : i \in 1..Len(names)}
        /\ calls[Len(calls)].api = "values.batchUpdate"
        /\ calls[Len(calls)].body.valueInputOption = "RAW"
        /\ DOMAIN column_dict = SeqRange(names)
        /\ \A i \in 1..Len(names) : IsNthLetter(column_dict[names[i]], i)
        /\ reflect_columns(remote, t).ret = column_dict

\* C5, as stated: for every list of pairwise-distinct column names, after a
\* successful create_sheet row 1 of the new sheet holds exactly the names in
\* order, written RAW, and reflect_columns on the sheet returns the mapping
\* the created table holds, name i -> i-th column letter.
C5_RoundTripAnyNames ==
    (last.op = "create_sheet" /\ last.err = "none" /\ Distinct(last.arg))
        => C5_RoundTripHolds

\* C5, amended: the same, for every list of pairwise-distinct column names
\* that does not end with the empty string.
C5_RoundTrip ==
    (/\ last.op = "create_sheet" /\ last.err = "none" /\ Distinct(last.arg)
     /\ (last.arg # <<>> => last.arg[Len(last.arg)] # ""))
        => C5_RoundTripHolds

\* a sheet has been created with two distinct names, the first of them empty
C5_Witness ==
    /\ last.op = "create_sheet" /\ last.err = "none"
    /\ Len(last.arg) = 2 /\ last.arg[1] = "" /\ last.arg[2] = "'id"
    /\ HeaderOf(remote[last.title]) = last.arg

\* what C6 says of every mapping reflect_columns returns: one-to-one, over
\* the values of the header row, empty when the row is empty
C6_Bijection ==
    LET h == HeaderOf(remote[last.title])
        m == last.ret
    IN  /\ OneToOne(m)
        /\ DOMAIN m = SeqRange(h)
        /\ (h = <<>> => DOMAIN m = {})

\* C6, as stated: for every header row h_1..h_n, repeated and empty cells
\* included, reflect_columns returns a one-to-one mapping that assigns h_i to
\* the i-th column letter for every i, and the empty mapping when the
\* response has no values.
C6_EveryPosition ==
    (last.op = "reflect_columns") =>
        /\ C6_Bijection
        /\ \A i \in 1..Len(HeaderOf(remote[last.title])) :
              IsNthLetter(last.ret[HeaderOf(remote[last.title])[i]], i)

\* C6, amended: the mapping is one-to-one, its names are the values of the
\* header row, and each value has the letter of its last position in the
\* row, so that h_i has the i-th letter for every i when no value repeats.
C6_LastPosition ==
    (last.op = "reflect_columns") =>
        /\ C6_Bijection
        /\ \A i \in 1..Len(HeaderOf(remote[last.title])) :
              LET h == HeaderOf(remote[last.title])
              IN  (\A j \in (i + 1)..Len(h) : h[j] # h[i])
                    => IsNthLetter(last.ret[h[i]], i)

\* a header row of two equal cells has been reflected
C6_Witness ==
    /\ last.op = "reflect_columns"
    /\ Len(HeaderOf(remote[last.title])) = 2
    /\ HeaderOf(remote[last.title])[1] = HeaderOf(remote[last.title])[2]
    /\ Cardinality(DOMAIN last.ret) = 1

\* C7: create_sheet with a title the sheets map already holds fails before
\* any remote request: no addSheet, no header write, and the sheets map, its
\* tables and the remote sheets are as they were.
C7_DuplicateSheetNoCall ==
    [][ (last'.op = "create_sheet" /\ last'.title \in DOMAIN sheets)
        =>
        /\ last'.err = "AssertionError"
        /\ calls' = <<>>
        /\ sheets' = sheets
        /\ remote' = remote
      ]_vars

\* a create_sheet on a known title has been rejected
C7_Witness ==
    /\ last.op = "create_sheet"
    /\ last.err = "AssertionError"
    /\ last.title \in DOMAIN sheets
    /\ last.arg # <<>>
    /\ calls = <<>>

\* C8: create_sheet with a list that repeats a name fails, before any remote
\* request: no sheet is added, no header cell is written and no table is
\* registered under the title.
C8_DuplicateNameRejected ==
    [][ (last'.op = "create_sheet" /\ ~Distinct(last'.arg))
        =>
        /\ last'.err # "none"
        /\ calls' = <<>>
        /\ remote' = remote
        /\ sheets' = sheets
      ]_vars

\* C9: looking a title up on the store returns the table registered under
\* it for every title in the sheets map, whatever the title is, and fails
\* with the not-found error for every title that is not in the map.
C9_LookupByTitle ==
    (last.op = "getattr") =>
        IF last.title \in DOMAIN sheets
        THEN /\ last.err = "none"
             /\ last.ret.kind = "SheetTable"
             /\ last.ret.table = sheets[last.title]
        ELSE last.err = "AttributeError"

-----------------------------------------------------------------------------
(* One table from its creation on: a single caller creates the sheet on a  *)
(* fresh spreadsheet and then inserts rows, clears the data and reflects   *)
(* the header, in any order.                                               *)

\* most operations of the caller, create_sheet included
MaxLifeOps == 4

\* the sheet the caller creates, and the one sheet a new spreadsheet has
LifeTitle == "Users"
FreshSpreadsheet == [t \in {"sheets"} |-> EmptyGrid]

\* insert_row's default value_input_option
DefaultInputOption == "USER_ENTERED"

InitLife ==
    /\ remote = FreshSpreadsheet
    /\ sheets = reflect_meta(remote).sheets
    /\ calls = reflect_meta(remote).calls
    /\ last = NoOp
    /\ nOps = 0
    /\ colIn = <<OrdA>>
    /\ colOut = Pending
    /\ callers = NoCallers

LifeCreate ==
    /\ nOps < MaxLifeOps
    /\ LifeTitle \notin DOMAIN sheets
    /\ \E column_names \in NameLists :
        LET r == create_sheet(remote, sheets, LifeTitle, column_names)
        IN  /\ remote' = r.remote
            /\ sheets' = r.sheets
            /\ calls' = r.calls
            /\ last' = [op |-> "create_sheet", title |-> LifeTitle,
                        arg |-> column_names, option |-> "",
                        err |-> r.err, ret |-> <<>>]
    /\ nOps' = nOps + 1
    /\ UNCHANGED <<colIn, colOut, callers>>

LifeInsert ==
    /\ nOps < MaxLifeOps
    /\ LifeTitle \in DOMAIN sheets
    /\ \E row \in Rows, vio \in InputOptions :
        LET r == insert_row(remote, sheets[LifeTitle], row, vio)
        IN  /\ remote' = r.remote
            /\ calls' = r.calls
            /\ last' = [op |-> "insert_row", title |-> LifeTitle, arg |-> row,
                        option |-> vio, err |-> r.err, ret |-> <<>>]
    /\ nOps' = nOps + 1
    /\ UNCHANGED <<sheets, colIn, colOut, callers>>

LifeClear ==
    /\ nOps < MaxLifeOps
    /\ LifeTitle \in DOMAIN sheets
    /\ LET r == clear_all_data(remote, sheets[LifeTitle])
       IN  /\ remote' = r.remote
           /\ calls' = r.calls
           /\ last' = [op |-> "clear_all_data", title |-> LifeTitle,
                       arg |-> <<>>, option |-> "", err |-> r.err,
                       ret |-> <<>>]
    /\ nOps' = nOps + 1
    /\ UNCHANGED <<sheets, colIn, colOut, callers>>

\* (a variant that keeps the reflected mapping in the table, as __init__ does)
LifeReflectStores ==
    /\ nOps < MaxLifeOps
    /\ LifeTitle \in DOMAIN sheets
    /\ LET r == reflect_columns(remote, LifeTitle)
       IN  /\ calls' = r.calls
           /\ sheets' = [sheets EXCEPT ![LifeTitle].column_dict = r.ret]
           /\ last' = [op |-> "reflect_columns", title |-> LifeTitle,
                       arg |-> <<>>, option |-> "", err |-> "none",
                       ret |-> r.ret,
                       again |-> last.op = "reflect_columns"]
    /\ nOps' = nOps + 1
    /\ UNCHANGED <<remote, colIn, colOut, callers>>

\* reflect_columns; again says that the call before it was one too
LifeReflect ==
    /\ nOps < MaxLifeOps
    /\ LifeTitle \in DOMAIN sheets
    /\ LET r == reflect_columns(remote, LifeTitle)
       IN  /\ calls' = r.calls
           /\ last' = [op |-> "reflect_columns", title |-> LifeTitle,
                       arg |-> <<>>, option |-> "", err |-> "none",
                       ret |-> r.ret,
                       again |-> last.op = "reflect_columns"]
    /\ nOps' = nOps + 1
    /\ UNCHANGED <<remote, sheets, colIn, colOut, callers>>

NextLife ==
    \/ LifeCreate
    \/ LifeInsert
    \/ LifeClear
    \/ LifeReflect

SpecLife == InitLife /\ [][NextLife]_vars

\* C11: reflect_columns is a pure read: it issues no write and no clear, it
\* leaves the remote sheets and the table's stored mapping as they were, and
\* a call right after another one returns the same mapping.
C11_ReflectPureRead ==
    [][ (last'.op = "reflect_columns")
        =>
        /\ remote' = remote
        /\ sheets' = sheets
        /\ \A i \in 1..Len(calls') : calls'[i].api = "values.get"
        /\ (last.op = "reflect_columns" /\ last.title = last'.title)
              => last'.ret = last.ret
      ]_vars

\* a second reflect_columns in a row has returned a mapping of two columns
C11_Witness ==
    /\ last.op = "reflect_columns"
    /\ last.again
    /\ Cardinality(DOMAIN last.ret) = 2
    /\ sheets[last.title].column_dict = last.ret

-----------------------------------------------------------------------------
(* Two callers of insert_row on one table at the same time.  A call is the *)
(* check of the column names, then the request that reads the next empty   *)
(* row, then the request that writes the cells; the requests of the two    *)
(* callers reach the remote store in any order.                            *)

Callers == {1, 2}
RaceTitle == "Users"

Idle == [pc |-> "idle", row |-> <<>>, option |-> "", row_id |-> 0]

InitRace ==
    /\ \E g \in InitialGrids : remote = [t \in {RaceTitle} |-> g]
    /\ sheets = reflect_meta(remote).sheets
    /\ calls = reflect_meta(remote).calls
    /\ last = NoOp
    /\ nOps = 0
    /\ colIn = <<OrdA>>
    /\ colOut = Pending
    /\ callers = [c \in Callers |-> Idle]

\* the call and its loop of assertions over the names of the row
RaceCall(c) ==
    /\ callers[c].pc = "idle"
    /\ \E row \in Rows, value_input_option \in InputOptions :
        LET table == sheets[RaceTitle]
            ok == \A k \in DictKeys(row) : k \in DOMAIN table.column_dict
        IN  /\ callers' = [callers EXCEPT ![c] =
                             [pc |-> IF ok THEN "checked" ELSE "failed",
                              row |-> row, option |-> value_input_option,
                              row_id |-> 0]]
            /\ last' = [op |-> "insert_row", title |-> RaceTitle, arg |-> row,
                        option |-> value_input_option,
                        err |-> IF ok THEN "pending" ELSE "AssertionError",
                        ret |-> <<>>]
    /\ calls' = <<>>
    /\ UNCHANGED <<remote, sheets, nOps, colIn, colOut>>

\* row_id = self.next_empty_row_id()
RaceRead(c) ==
    /\ callers[c].pc = "checked"
    /\ LET nxt == next_empty_row_id(remote, RaceTitle)
       IN  /\ callers' = [callers EXCEPT ![c].pc = "read",
                                         ![c].row_id = nxt.ret]
           /\ calls' = nxt.calls
    /\ UNCHANGED <<remote, sheets, last, nOps, colIn, colOut>>

\* (a variant that reads the next empty row again when it writes)
RaceWriteRereads(c) ==
    /\ callers[c].pc = "read"
    /\ LET me == callers[c]
           nxt == next_empty_row_id(remote, RaceTitle)
           body == InsertBody(sheets[RaceTitle], me.row, me.option, nxt.ret)
       IN  /\ remote' = RemoteValuesBatchUpdate(remote, RaceTitle, body)
           /\ calls' = <<BatchUpdateValuesCall(body)>>
           /\ last' = [op |-> "insert_row", title |-> RaceTitle,
                       arg |-> me.row, option |-> me.option, err |-> "none",
                       ret |-> <<>>]
    /\ callers' = [callers EXCEPT ![c].pc = "done"]
    /\ UNCHANGED <<sheets, nOps, colIn, colOut>>

\* the batchUpdate request, built from the row_id read before
RaceWrite(c) ==
    /\ callers[c].pc = "read"
    /\ LET me == callers[c]
           body == InsertBody(sheets[RaceTitle], me.row, me.option, me.row_id)
       IN  /\ remote' = RemoteValuesBatchUpdate(remote, RaceTitle, body)
           /\ calls' = <<BatchUpdateValuesCall(body)>>
           /\ last' = [op |-> "insert_row", title |-> RaceTitle,
                       arg |-> me.row, option |-> me.option, err |-> "none",
                       ret |-> <<>>]
    /\ callers' = [callers EXCEPT ![c].pc = "done"]
    /\ UNCHANGED <<sheets, nOps, colIn, colOut>>

NextRace ==
    \/ \E c \in Callers : RaceCall(c)
    \/ \E c \in Callers : RaceRead(c)
    \/ \E c \in Callers : RaceWrite(c)

SpecRace == InitRace /\ [][NextRace]_vars

\* the cell a caller's row entry goes to, given the row id it has read
RaceCell(c, i) ==
    <<decode(sheets[RaceTitle].column_dict[callers[c].row[i][1]]),
      callers[c].row_id>>

\* the cells a caller's row goes to
RaceCells(c) == {RaceCell(c, i) : i \in 1..Len(callers[c].row)}

\* C12: with two callers of insert_row the read of the next empty row and the
\* batch write are separate steps: the read takes the row after the last one
\* of column A as the store is then and changes nothing, and the write goes
\* to the row read before, whatever the store has become, so that a caller
\* who read the same row id and wrote first loses its values to the later
\* write.
C12_ReadAndWriteApart ==
    [][ \A c \in Callers :
          /\ (callers[c].pc = "checked" /\ callers'[c].pc = "read")
               => /\ remote' = remote
                  /\ callers'[c].row_id = LastRowOfA(remote[RaceTitle]) + 1
          /\ (callers[c].pc = "read" /\ callers'[c].pc = "done")
               => /\ \A i \in 1..Len(callers[c].row) :
                        CellValue(remote'[RaceTitle], RaceCell(c, i))
                          = StoredValue(callers[c].option,
                                        callers[c].row[i][2])
                  /\ \A cell \in (DOMAIN remote[RaceTitle]
                                   \cup DOMAIN remote'[RaceTitle])
                                 \ RaceCells(c) :
                        CellValue(remote'[RaceTitle], cell)
                          = CellValue(remote[RaceTitle], cell)
      ]_vars

\* both calls have completed on the same row id, and a value the first one
\* stored is no longer in the sheet
C12_Witness ==
    /\ callers # NoCallers
    /\ \A c \in Callers : callers[c].pc = "done"
    /\ callers[1].row_id = callers[2].row_id
    /\ \E i \in 1..Len(callers[1].row) :
          /\ StoredValue(callers[1].option, callers[1].row[i][2]) # ""
          /\ CellValue(remote[RaceTitle], RaceCell(1, i))
               # StoredValue(callers[1].option, callers[1].row[i][2])

-----------------------------------------------------------------------------
(* The store when a remote request of create_sheet may fail.  execute()    *)
(* raises what the service reports and create_sheet catches nothing, so    *)
(* the call ends at the failing request; a request that failed has changed *)
(* nothing in the remote spreadsheet.                                      *)

\* most operations on the store
MaxStoreOps == 2

\* the requests of create_sheet, in the order it issues them
FailurePoints == {"addSheet", "values.get", "values.batchUpdate"}

\* (a variant that stores the table only after the header is written)
create_sheet_fails_stores_last(rem, shs, title, column_names, at) ==
    IF title \in DOMAIN shs
    THEN [err |-> "AssertionError", calls |-> <<>>, remote |-> rem,
          sheets |-> shs]
    ELSE IF at = "addSheet"
    THEN [err |-> "RemoteFailure", calls |-> <<AddSheetCall(title)>>,
          remote |-> rem, sheets |-> shs]
    ELSE LET added == RemoteAddSheet(rem, title)
             column_dict == ColumnDictLoop(column_names, EmptyBidict, <<OrdA>>)
             sheet == SheetTable(title, column_dict)
             nxt == next_empty_row_id(added, title)
             body == InsertBody(sheet, HeaderDict(column_names, <<>>),
                                HeaderInputOption, nxt.ret)
         IN  [err |-> "RemoteFailure",
              calls |-> <<AddSheetCall(title)>> \o nxt.calls \o
                        (IF at = "values.get" THEN <<>>
                         ELSE <<BatchUpdateValuesCall(body)>>),
              remote |-> added,
              sheets |-> shs]

\* create_sheet when the request named by at fails
create_sheet_fails(rem, shs, title, column_names, at) ==
    IF title \in DOMAIN shs
    THEN [err |-> "AssertionError", calls |-> <<>>, remote |-> rem,
          sheets |-> shs]
    ELSE IF at = "addSheet"
    THEN [err |-> "RemoteFailure", calls |-> <<AddSheetCall(title)>>,
          remote |-> rem, sheets |-> shs]
    ELSE LET added == RemoteAddSheet(rem, title)
             column_dict == ColumnDictLoop(column_names, EmptyBidict, <<OrdA>>)
             sheet == SheetTable(title, column_dict)
             nxt == next_empty_row_id(added, title)
             body == InsertBody(sheet, HeaderDict(column_names, <<>>),
                                HeaderInputOption, nxt.ret)
         IN  [err |-> "RemoteFailure",
              calls |-> <<AddSheetCall(title)>> \o nxt.calls \o
                        (IF at = "values.get" THEN <<>>
                         ELSE <<BatchUpdateValuesCall(body)>>),
              remote |-> added,
              sheets |-> [t \in DOMAIN shs \cup {title} |->
                            IF t = title THEN sheet ELSE shs[t]]]

\* the column names the store's callers create sheets with
StoreNameLists == StrsUpTo({"id", "'id"}, MaxCols)

InitStore ==
    /\ remote \in {FreshSpreadsheet, [t \in {"Orders"} |-> EmptyGrid]}
    /\ sheets = reflect_meta(remote).sheets
    /\ calls = reflect_meta(remote).calls
    /\ last = NoOp
    /\ nOps = 0
    /\ colIn = <<OrdA>>
    /\ colOut = Pending
    /\ callers = NoCallers

StoreCreate ==
    /\ nOps < MaxStoreOps
    /\ \E t \in Titles, column_names \in StoreNameLists :
        LET r == create_sheet(remote, sheets, t, column_names)
        IN  /\ remote' = r.remote
            /\ sheets' = r.sheets
            /\ calls' = r.calls
            /\ last' = [op |-> "create_sheet", title |-> t,
                        arg |-> column_names, option |-> "",
                        err |-> r.err, ret |-> <<>>, at |-> "none"]
    /\ nOps' = nOps + 1
    /\ UNCHANGED <<colIn, colOut, callers>>

StoreCreateFails ==
    /\ nOps < MaxStoreOps
    /\ \E t \in Titles \ DOMAIN sheets, column_names \in StoreNameLists,
          at \in FailurePoints :
        LET r == create_sheet_fails(remote, sheets, t, column_names, at)
        IN  /\ remote' = r.remote
            /\ sheets' = r.sheets
            /\ calls' = r.calls
            /\ last' = [op |-> "create_sheet", title |-> t,
                        arg |-> column_names, option |-> "",
                        err |-> r.err, ret |-> <<>>, at |-> at]
    /\ nOps' = nOps + 1
    /\ UNCHANGED <<colIn, colOut, callers>>

StoreInsert ==
    /\ nOps < MaxStoreOps
    /\ \E t \in DOMAIN sheets, row \in Rows :
        LET r == insert_row(remote, sheets[t], row, DefaultInputOption)
        IN  /\ remote' = r.remote
            /\ calls' = r.calls
            /\ last' = [op |-> "insert_row", title |-> t, arg |-> row,
                        option |-> DefaultInputOption, err |-> r.err,
                        ret |-> <<>>]
    /\ nOps' = nOps + 1
    /\ UNCHANGED <<sheets, colIn, colOut, callers>>

StoreClear ==
    /\ nOps < MaxStoreOps
    /\ \E t \in DOMAIN sheets :
        LET r == clear_all_data(remote, sheets[t])
        IN  /\ remote' = r.remote
            /\ calls' = r.calls
            /\ last' = [op |-> "clear_all_data", title |-> t, arg |-> <<>>,
                        option |-> "", err |-> r.err, ret |-> <<>>]
    /\ nOps' = nOps + 1
    /\ UNCHANGED <<sheets, colIn, colOut, callers>>

StoreReflect ==
    /\ nOps < MaxStoreOps
    /\ \E t \in DOMAIN sheets :
        LET r == reflect_columns(remote, t)
        IN  /\ calls' = r.calls
            /\ last' = [op |-> "reflect_columns", title |-> t, arg |-> <<>>,
                        option |-> "", err |-> "none", ret |-> r.ret]
    /\ nOps' = nOps + 1
    /\ UNCHANGED <<remote, sheets, colIn, colOut, callers>>

NextStore ==
    \/ StoreCreate
    \/ StoreCreateFails
    \/ StoreInsert
    \/ StoreClear
    \/ StoreReflect

SpecStore == InitStore /\ [][NextStore]_vars

\* the step is a create_sheet whose addSheet succeeded and whose header
\* write failed
HeaderWriteFails ==
    /\ last'.op = "create_sheet"
    /\ last'.err = "RemoteFailure"
    /\ last'.at # "addSheet"

\* C13 as stated: after a create_sheet whose addSheet succeeded and whose
\* header write failed, the remote spreadsheet has the new sheet without a
\* header row and the sheets map has no entry for the title.
C13_NotRegistered ==
    [][ HeaderWriteFails
        => /\ remote'[last'.title] = EmptyGrid
           /\ last'.title \notin DOMAIN sheets'
      ]_vars

\* C13: after a create_sheet whose addSheet succeeded and whose header write
\* failed, the remote spreadsheet has the new sheet without a header row and
\* the sheets map holds the new table under the title, with the mapping built
\* from the column names; a create_sheet of the same title right after is
\* rejected by the check of the title and issues no request.
C13_RegisteredBeforeHeader ==
    [][ /\ HeaderWriteFails
           => /\ last'.title \notin DOMAIN sheets
              /\ last'.title \notin DOMAIN remote
              /\ remote'[last'.title] = EmptyGrid
              /\ \A t \in DOMAIN remote : remote'[t] = remote[t]
              /\ last'.title \in DOMAIN sheets'
              /\ sheets'[last'.title]
                   = SheetTable(last'.title,
                                ColumnDictLoop(last'.arg, EmptyBidict,
                                               <<OrdA>>))
        /\ ( /\ last.op = "create_sheet"
             /\ last.err = "RemoteFailure"
             /\ last.at # "addSheet"
             /\ last'.op = "create_sheet"
             /\ last'.title = last.title )
           => /\ last'.err = "AssertionError"
              /\ calls' = <<>>
              /\ remote' = remote
              /\ sheets' = sheets
      ]_vars

\* a create_sheet has been rejected for a title whose sheet has no header
\* row although its table maps a column: the sheet of a failed header write
C13_Witness ==
    /\ last.op = "create_sheet"
    /\ last.err = "AssertionError"
    /\ last.title \in DOMAIN remote
    /\ remote[last.title] = EmptyGrid
    /\ DOMAIN sheets[last.title].column_dict # {}

\* every table of the map is bound under its own title and has the store's
\* spreadsheet id
TablesWellFormed(shs) ==
    \A t \in DOMAIN shs :
        /\ shs[t].title = t
        /\ shs[t].spreadsheet_id = SpreadsheetId

\* C16 as stated: the sheets map holds the titles enumerated at construction
\* plus the titles of the create_sheet calls that got past the check of the
\* title, each bound to a table of that title and of the store's spreadsheet
\* id; no step removes or rebinds a key.
C16_KeysOfCallsPastCheck ==
    /\ DOMAIN sheets = DOMAIN remote
    /\ TablesWellFormed(sheets)
    /\ [][ /\ \A t \in DOMAIN sheets :
                 t \in DOMAIN sheets' /\ sheets'[t] = sheets[t]
           /\ DOMAIN sheets'
                = DOMAIN sheets \cup
                    (IF last'.op = "create_sheet"
                        /\ last'.err # "AssertionError"
                     THEN {last'.title} ELSE {})
           /\ TablesWellFormed(sheets')
         ]_vars

\* C16: the sheets map holds the titles enumerated at construction plus the
\* titles of the create_sheet calls whose addSheet request succeeded, each
\* bound to a table of that title and of the store's spreadsheet id; no step
\* removes or rebinds a key, and a create_sheet adds at most one key.
C16_KeysOfSheetsAdded ==
    /\ DOMAIN sheets = DOMAIN remote
    /\ TablesWellFormed(sheets)
    /\ [][ /\ \A t \in DOMAIN sheets :
                 t \in DOMAIN sheets' /\ sheets'[t] = sheets[t]
           /\ DOMAIN sheets'
                = DOMAIN sheets \cup
                    (IF /\ last'.op = "create_sheet"
                        /\ \/ last'.err = "none"
                           \/ last'.err = "RemoteFailure"
                              /\ last'.at # "addSheet"
                     THEN {last'.title} ELSE {})
           /\ Cardinality(DOMAIN sheets') <= Cardinality(DOMAIN sheets) + 1
           /\ TablesWellFormed(sheets')
         ]_vars

\* two create_sheet calls have added their titles to the one enumerated at
\* construction
C16_Witness ==
    /\ last.op = "create_sheet"
    /\ last.err = "none"
    /\ Cardinality(DOMAIN sheets) = 3
    /\ DOMAIN sheets = DOMAIN remote
    /\ TablesWellFormed(sheets)

\* the operations of a table that are not its construction
TableOps ==
    {"insert_row", "next_empty_row_id", "clear_all_data", "reflect_columns"}

\* C15: insert_row, accepted or rejected, next_empty_row_id, clear_all_data
\* and reflect_columns leave the column mapping of every table as it was.
C15_MappingFixed ==
    [][ (last'.op \in TableOps)
        => /\ DOMAIN sheets' = DOMAIN sheets
           /\ \A t \in DOMAIN sheets :
                 sheets'[t].column_dict = sheets[t].column_dict
      ]_vars

\* an insert_row has been rejected on a table that maps a column
C15_Witness ==
    /\ last.op = "insert_row"
    /\ last.err = "AssertionError"
    /\ DOMAIN sheets[last.title].column_dict # {}

\* the column indices a mapping gives
MappedColumns(column_dict) ==
    {decode(column_dict[n]) : n \in DOMAIN column_dict}

\* the mapping create_sheet builds from a non-empty list of distinct
\* non-empty names: no empty name, and the letters are the first ones with
\* none left out (a repeated name leaves out the letter of its first place)
FromDistinctNames(column_dict) ==
    /\ DOMAIN column_dict # {}
    /\ "" \notin DOMAIN column_dict
    /\ MappedColumns(column_dict) = 1..Cardinality(DOMAIN column_dict)

\* the cells of a row of a grid
CellsOfRow(grid, r) == {cell \in DOMAIN grid : cell[2] = r}

\* C14: on a sheet that create_sheet made from a non-empty list of distinct
\* non-empty names, whatever the single caller inserted before,
\* clear_all_data succeeds, leaves row 1 as it was and leaves no value in a
\* row from 2 on under a mapped column; a clear_all_data right after another
\* one changes nothing.
C14_ClearKeepsHeaderOnly ==
    [][ (/\ last'.op = "clear_all_data"
         /\ FromDistinctNames(sheets[last'.title].column_dict))
        =>
        LET t == last'.title
            cols == MappedColumns(sheets[t].column_dict)
        IN  /\ last'.err = "none"
            /\ CellsOfRow(remote'[t], 1) = CellsOfRow(remote[t], 1)
            /\ \A cell \in CellsOfRow(remote[t], 1) :
                  remote'[t][cell] = remote[t][cell]
            /\ \A cell \in DOMAIN remote'[t] :
                  cell[2] >= 2 => cell[1] \notin cols
            /\ (last.op = "clear_all_data" /\ last.title = t)
                  => remote' = remote
      ]_vars

\* a clear_all_data that reached row 3 has left the header of two distinct
\* names and nothing else
C14_Witness ==
    /\ last.op = "clear_all_data"
    /\ last.err = "none"
    /\ FromDistinctNames(sheets[last.title].column_dict)
    /\ Len(calls) = 2
    /\ calls[2].range.r2 = 3
    /\ HeaderOf(remote[last.title]) = <<"id", "'id">>
    /\ DOMAIN remote[last.title] = {<<1, 1>>, <<2, 1>>}

\* column A has a value in every row up through its last occupied row
NoGapsInA(grid) ==
    \A r \in 1..LastRowOfA(grid) : <<1, r>> \in DOMAIN grid

\* no cell is occupied below the last occupied row of column A
NothingBelowA(grid) ==
    \A cell \in DOMAIN grid : cell[2] <= LastRowOfA(grid)

\* the row gives the column mapped to letter A a value that is stored
\* non-empty
GivesColumnA(table, row, value_input_option) ==
    \E i \in 1..Len(row) :
        /\ table.column_dict[row[i][1]] = <<OrdA>>
        /\ StoredValue(value_input_option, row[i][2]) # ""

\* the step is an insert_row that was accepted
InsertAccepted ==
    /\ last'.op = "insert_row"
    /\ last'.err = "none"

\* the step has kept every value of the sheet and has moved the next empty
\* row of column A one row down
KeepsAndAdvances(t) ==
    /\ \A cell \in DOMAIN remote[t] :
          /\ cell \in DOMAIN remote'[t]
          /\ remote'[t][cell] = remote[t][cell]
    /\ LastRowOfA(remote'[t]) = LastRowOfA(remote[t]) + 1

\* C17 as stated: on a sheet whose column A has no gaps, every accepted
\* insert_row, whatever its row gives column A, writes only to cells that
\* were empty and moves the target of the next insert one row down.
C17_AnyRowAppends ==
    [][ (InsertAccepted /\ NoGapsInA(remote[last'.title]))
        => KeepsAndAdvances(last'.title)
      ]_vars

\* C17: on a sheet whose column A has no gaps and that holds nothing below
\* the last occupied row of column A, every accepted insert_row whose row
\* gives the column mapped to A a value stored non-empty writes only to cells
\* that were empty, all of them in the row after the last occupied one of
\* column A, moves the target of the next insert one row down and leaves the
\* sheet as it requires it.
C17_RowWithColumnAAppends ==
    [][ (/\ InsertAccepted
         /\ NoGapsInA(remote[last'.title])
         /\ NothingBelowA(remote[last'.title])
         /\ GivesColumnA(sheets[last'.title], last'.arg, last'.option))
        =>
        LET t == last'.title
        IN  /\ KeepsAndAdvances(t)
            /\ \A cell \in DOMAIN remote'[t] \ DOMAIN remote[t] :
                  cell[2] = LastRowOfA(remote[t]) + 1
            /\ NoGapsInA(remote'[t])
            /\ NothingBelowA(remote'[t])
      ]_vars

\* an insert_row that gave column A a value has filled row 3: the second
\* such insert after the header
C17_Witness ==
    /\ last.op = "insert_row"
    /\ last.err = "none"
    /\ GivesColumnA(sheets[last.title], last.arg, last.option)
    /\ Len(last.arg) = 2
    /\ LastRowOfA(remote[last.title]) = 3
    /\ Cardinality(DOMAIN remote[last.title]) = 6
    /\ NoGapsInA(remote[last.title])
    /\ NothingBelowA(remote[last.title])

=============================================================================
